---------------------------- MODULE Spec2Model ----------------------------
(***************************************************************************)
(* A model of sonant-rs: the song decoder (src/src/song.rs) and the        *)
(* streaming synthesizer (src/src/synth.rs).                               *)
(*                                                                         *)
(* Representation.                                                         *)
(*  - A byte slice, and an array of bytes or of indices of the song, is    *)
(*    its length and the map of its non-zero entries.                      *)
(*  - TLC's integers are 32-bit signed, so a u32 of the program is held as *)
(*    its two 16-bit halves [hi, lo]; the running counters of the synth    *)
(*    (sample_count and a voice's sample_count), which the explored runs   *)
(*    keep far below 2^31, are plain integers.                             *)
(*  - An f32 that the program only carries is held by the quantities it is *)
(*    computed from (a byte over its divisor, an effective pitch); the     *)
(*    per-voice signal chain (oscillators, noise, filter, panning) is a    *)
(*    function of the voice that the model does not compute: a run fixes   *)
(*    it as `chain`, one of the pairs of VoiceOut.                         *)
(***************************************************************************)
EXTENDS Integers, Sequences, FiniteSets, TLC

\* ---------------------------------------------------------------- consts.rs
NUM_CHANNELS == 2
NUM_INSTRUMENTS == 8
NUM_PATTERNS == 10
MAX_OVERLAPPING_NOTES == 8
HEADER_LENGTH == 4
INSTRUMENT_LENGTH == 416
FOOTER_LENGTH == 1
SONG_LENGTH == HEADER_LENGTH + INSTRUMENT_LENGTH * NUM_INSTRUMENTS + FOOTER_LENGTH
OSCILLATOR_LENGTH == 6
SEQUENCE_LENGTH == 48
PATTERN_LENGTH == 32

\* ---------------------------------------------------------------- bounds
\* The number of frames an explored run asks the synth for.
MaxSamples == 72

\* ---------------------------------------------------------------- u32
\* 2^16: a u32 is [hi |-> h, lo |-> l] with value h * 2^16 + l.
HALF == 256 * 256

U32(n) == [hi |-> n \div HALF, lo |-> n % HALF]

U32_MAX == [hi |-> HALF - 1, lo |-> HALF - 1]

U32Zero == U32(0)

\* x < y, x <= y on u32.
U32Lt(x, y) == x.hi < y.hi \/ (x.hi = y.hi /\ x.lo < y.lo)

U32Le(x, y) == x = y \/ U32Lt(x, y)

\* A u32 below 2^31 as an integer.
U32Fits(x) == x.hi < HALF \div 2

U32Int(x) == x.hi * HALF + x.lo

\* x + y: the wrapped sum and whether it overflowed 32 bits.
U32Add(x, y) ==
    LET lo == x.lo + y.lo
        hi == x.hi + y.hi + (lo \div HALF)
    IN  [v |-> [hi |-> hi % HALF, lo |-> lo % HALF], ovf |-> hi >= HALF]

\* x - y for y <= x.
U32Sub(x, y) ==
    LET borrow == IF x.lo < y.lo THEN 1 ELSE 0
    IN  [hi |-> x.hi - y.hi - borrow, lo |-> x.lo + borrow * HALF - y.lo]

\* x % 2 and x / 2.
U32Rem2(x) == x.lo % 2

U32Half(x) == [hi |-> x.hi \div 2, lo |-> (x.lo \div 2) + (x.hi % 2) * (HALF \div 2)]

\* k * x for 0 <= k < 2^15: the wrapped product and whether it overflowed.
U32MulSmall(k, x) ==
    LET lo == k * x.lo
        hi == k * x.hi + (lo \div HALF)
    IN  [v |-> [hi |-> hi % HALF, lo |-> lo % HALF], ovf |-> hi >= HALF]

\* ---------------------------------------------------------------- slices
\* A slice: its length and its non-zero bytes (offset -> byte).
\* slice[k]; an index at or past the length panics in Rust.
InBounds(slice, k) == k >= 0 /\ k < slice.len

ByteAt(slice, k) == IF k \in DOMAIN slice.bytes THEN slice.bytes[k] ELSE 0

\* LittleEndian::read_u32(&slice[i..i + 4])
read_u32(slice, i) ==
    [lo |-> ByteAt(slice, i) + 256 * ByteAt(slice, i + 1),
     hi |-> ByteAt(slice, i + 2) + 256 * ByteAt(slice, i + 3)]


\* ---------------------------------------------------------------- results
\* Result<T, Error>, and the third outcome of a Rust call: a panic.
Ok(v) == [kind |-> "Ok", v |-> v]

Err(e) == [kind |-> "Err", err |-> e]

Panic == [kind |-> "Panic"]

IsOk(r) == r.kind = "Ok"

\* An f32 computed as num / den from integers.
Ratio(n, d) == [num |-> n, den |-> d]

\* ---------------------------------------------------------------- song.rs
Waveforms == <<"Sine", "Square", "Saw", "Triangle">>

\* A variant of Filters without Notch, which C2 must tell apart.
FiltersWithoutNotch == <<"None", "HighPass", "LowPass", "BandPass">>

Filters == <<"None", "HighPass", "LowPass", "BandPass", "Notch">>

\* A variant of parse_waveform that maps every byte onto the four waveforms,
\* which C3 must tell apart.
parse_waveform_wrapping(waveform) == Ok(Waveforms[(waveform % Len(Waveforms)) + 1])

parse_waveform(waveform) ==
    IF waveform < Len(Waveforms) THEN Ok(Waveforms[waveform + 1])
    ELSE Err("InvalidWaveform")

\* A variant of WrappingOctave computed in a wider integer, which C16 must
\* tell apart.
WideningOctave(byte) == (byte - 8) * 12

\* ((w::<u8>(byte) - w(8)) * w(12)).0
WrappingOctave(byte) == (((byte + 256 - 8) % 256) * 12) % 256

load_oscillator(slice, i0, o) ==
    LET i == i0 + o * OSCILLATOR_LENGTH
        waveform == parse_waveform(ByteAt(slice, i + 5))
    IN  IF ~InBounds(slice, i + 5) THEN Panic
        ELSE IF ~IsOk(waveform) THEN waveform
        ELSE Ok([octave |-> WrappingOctave(ByteAt(slice, i + 0)),
                 detune_freq |-> ByteAt(slice, i + 1),
                 detune |-> Ratio(ByteAt(slice, i + 2) + 1275, 1275),
                 envelope |-> ByteAt(slice, i + 3) # 0,
                 volume |-> Ratio(ByteAt(slice, i + 4), 255),
                 waveform |-> waveform.v])

load_envelope(slice, i) ==
    IF ~InBounds(slice, i + 12) THEN Panic
    ELSE Ok([attack |-> read_u32(slice, i + 0),
             sustain |-> read_u32(slice, i + 4),
             release |-> read_u32(slice, i + 8),
             master |-> Ratio(ByteAt(slice, i + 12) * 156, 1)])

load_effects(slice, i0) ==
    LET i == i0 + 3
    IN  IF ~InBounds(slice, i0) THEN Panic
        ELSE IF ByteAt(slice, i0) >= Len(Filters) THEN Err("InvalidFilter")
        ELSE IF ~InBounds(slice, i + 8) THEN Panic
        ELSE Ok([filter |-> Filters[ByteAt(slice, i0) + 1],
                 freq |-> read_u32(slice, i),
                 resonance |-> Ratio(ByteAt(slice, i + 4), 255),
                 delay_time |-> ByteAt(slice, i + 5),
                 delay_amount |-> Ratio(ByteAt(slice, i + 6), 255),
                 pan_freq |-> ByteAt(slice, i + 7),
                 pan_amount |-> Ratio(ByteAt(slice, i + 8), 512)])

load_lfo(slice, i) ==
    LET waveform == parse_waveform(ByteAt(slice, i + 4))
    IN  IF ~InBounds(slice, i + 4) THEN Panic
        ELSE IF ~IsOk(waveform) THEN waveform
        ELSE Ok([osc0_freq |-> ByteAt(slice, i + 0) # 0,
                 fx_freq |-> ByteAt(slice, i + 1) # 0,
                 freq |-> ByteAt(slice, i + 2),
                 amount |-> Ratio(ByteAt(slice, i + 3), 512),
                 waveform |-> waveform.v])

\* The array of the n bytes of the slice from offset i on, held as a slice is.
SubArray(slice, i, n) ==
    [len |-> n,
     bytes |-> [k \in {x \in 0..(n - 1) : ByteAt(slice, i + x) # 0} |->
                   ByteAt(slice, i + k)]]

load_sequence(slice, i) ==
    IF i + SEQUENCE_LENGTH > slice.len THEN Panic
    ELSE Ok(SubArray(slice, i, SEQUENCE_LENGTH))

load_pattern(slice, i0, p) ==
    LET i == i0 + p * PATTERN_LENGTH
    IN  IF i + PATTERN_LENGTH > slice.len THEN Panic
        ELSE Ok([notes |-> SubArray(slice, i, PATTERN_LENGTH)])

\* The local offsets at which load_instrument places each part of a block.
OscOffset == 0

NoiseOffset == OscOffset + OSCILLATOR_LENGTH * 2

EnvOffset == NoiseOffset + 4

FxOffset == EnvOffset + 13

LfoOffset == FxOffset + 12

\* A variant of SeqOffset one byte early, which C8 must tell apart.
SeqOffsetEarly == LfoOffset + 4

SeqOffset == LfoOffset + 5

PatOffset == SeqOffset + SEQUENCE_LENGTH

load_instrument(slice, inst) ==
    LET i == HEADER_LENGTH + inst * INSTRUMENT_LENGTH
        osc0 == load_oscillator(slice, i + OscOffset, 0)
        osc1 == load_oscillator(slice, i + OscOffset, 1)
        env == load_envelope(slice, i + EnvOffset)
        fx == load_effects(slice, i + FxOffset)
        lfo == load_lfo(slice, i + LfoOffset)
        seq == load_sequence(slice, i + SeqOffset)
        pat == [j \in 0..(NUM_PATTERNS - 1) |-> load_pattern(slice, i + PatOffset, j)]
    IN  IF ~IsOk(osc0) THEN osc0
        ELSE IF ~IsOk(osc1) THEN osc1
        ELSE IF ~InBounds(slice, i + NoiseOffset) THEN Panic
        ELSE IF ~IsOk(env) THEN env
        ELSE IF ~IsOk(fx) THEN fx
        ELSE IF ~IsOk(lfo) THEN lfo
        ELSE IF ~IsOk(seq) THEN seq
        ELSE IF \E j \in 0..(NUM_PATTERNS - 1) : ~IsOk(pat[j]) THEN Panic
        ELSE Ok([osc |-> [o \in 0..1 |-> IF o = 0 THEN osc0.v ELSE osc1.v],
                 noise_fader |-> Ratio(ByteAt(slice, i + NoiseOffset), 255),
                 env |-> env.v,
                 fx |-> fx.v,
                 lfo |-> lfo.v,
                 seq |-> seq.v,
                 pat |-> [j \in 0..(NUM_PATTERNS - 1) |-> pat[j].v]])

\* A variant of EvenQuarterNote that keeps the low bit, which C7 must tell
\* apart.
RawQuarterNote(raw) == raw

\* quarter_note_length - (quarter_note_length % 2)
EvenQuarterNote(raw) == U32Sub(raw, U32(U32Rem2(raw)))

\* Song::from_slice after its length check.
from_slice_body(slice) ==
    LET insts == [i \in 0..(NUM_INSTRUMENTS - 1) |-> load_instrument(slice, i)]
        bad == {i \in 0..(NUM_INSTRUMENTS - 1) : ~IsOk(insts[i])}
        first == CHOOSE i \in bad : \A k \in bad : i <= k
        footer == HEADER_LENGTH + INSTRUMENT_LENGTH * 8
    IN  IF ~InBounds(slice, footer) THEN Panic
        ELSE IF bad # {} THEN insts[first]
        ELSE Ok([instruments |-> [i \in 0..(NUM_INSTRUMENTS - 1) |-> insts[i].v],
                 seq_length |-> ByteAt(slice, footer),
                 quarter_note_length |-> EvenQuarterNote(read_u32(slice, 0))])

\* A variant of from_slice that accepts a longer slice, which C1 must tell
\* apart.
from_slice_at_least(slice) ==
    IF slice.len < SONG_LENGTH THEN Err("FileLength") ELSE from_slice_body(slice)

\* Song::from_slice
from_slice(slice) ==
    IF slice.len # SONG_LENGTH THEN Err("FileLength") ELSE from_slice_body(slice)

\* ---------------------------------------------------------------- synth.rs
\* The sample rates an explored synth is built with: sample_ratio is
\* sample_rate / 44100.0, here 1/2, 1 or 2, all exact in f32.
SampleRates == {22050, 44100, 88200}

\* The seeds an explored synth is built with.
Seeds == {<<1, 2>>}

\* `x as f32` for a u32: round to nearest, ties to even, on a 24-bit
\* significand.  The result may be 2^32, held with hi = 2^16.
F32OfU32(x) ==
    IF x.hi < 256 THEN x
    ELSE LET s == CHOOSE k \in 1..8 : 2^(k + 7) <= x.hi /\ x.hi < 2^(k + 8)
             u == 2^s
             r == x.lo % u
             up == r * 2 > u \/ (r * 2 = u /\ (x.lo \div u) % 2 = 1)
             lo == x.lo - r + (IF up THEN u ELSE 0)
         IN  [hi |-> x.hi + (lo \div HALF), lo |-> lo % HALF]

\* `(sample_ratio * x as f32) as u32`: the product is exact for the ratios
\* of SampleRates; the cast truncates and saturates.
ScaleU32(x, sample_rate) ==
    LET f == F32OfU32(x)
        k == (2 * sample_rate) \div 44100
        lo == k * f.lo
        hi == k * f.hi + (lo \div HALF)
        twice == [hi |-> hi, lo |-> lo % HALF]
        v == [hi |-> twice.hi \div 2,
              lo |-> (twice.lo \div 2) + (twice.hi % 2) * (HALF \div 2)]
    IN  IF v.hi >= HALF THEN U32_MAX ELSE v

\* n % q and n / q for an integer n < 2^31 and a u32 q > 0.
SmallMod(n, q) == IF U32Fits(q) THEN n % U32Int(q) ELSE n

SmallDiv(n, q) == IF U32Fits(q) THEN n \div U32Int(q) ELSE 0

\* (256.0_f32).log(1.0 / (b as f32 / 255.0)) as u32 for b = 1 .. 254.
DelayCountTable ==
    <<
       1, 1, 1, 1, 1, 1, 1, 1, 1, 1, 1, 1, 1, 1, 1, 2,
       2, 2, 2, 2, 2, 2, 2, 2, 2, 2, 2, 2, 2, 2, 2, 2,
       2, 2, 2, 2, 2, 2, 2, 2, 3, 3, 3, 3, 3, 3, 3, 3,
       3, 3, 3, 3, 3, 3, 3, 3, 3, 3, 3, 3, 3, 3, 3, 4,
       4, 4, 4, 4, 4, 4, 4, 4, 4, 4, 4, 4, 4, 4, 4, 4,
       4, 4, 4, 4, 5, 5, 5, 5, 5, 5, 5, 5, 5, 5, 5, 5,
       5, 5, 5, 5, 5, 6, 6, 6, 6, 6, 6, 6, 6, 6, 6, 6,
       6, 6, 6, 7, 7, 7, 7, 7, 7, 7, 7, 7, 7, 7, 7, 8,
       8, 8, 8, 8, 8, 8, 8, 8, 8, 9, 9, 9, 9, 9, 9, 9,
       9, 9, 10, 10, 10, 10, 10, 10, 10, 10, 11, 11, 11, 11, 11, 11,
       12, 12, 12, 12, 12, 12, 13, 13, 13, 13, 13, 14, 14, 14, 14, 14,
       15, 15, 15, 15, 16, 16, 16, 16, 17, 17, 17, 18, 18, 18, 19, 19,
       19, 20, 20, 21, 21, 21, 22, 22, 23, 23, 24, 24, 25, 25, 26, 27,
       27, 28, 29, 30, 30, 31, 32, 33, 34, 35, 36, 37, 38, 40, 41, 42,
       44, 45, 47, 49, 51, 53, 56, 58, 61, 64, 67, 71, 75, 80, 85, 91,
       98, 105, 115, 125, 138, 154, 173, 199, 232, 280, 350, 468, 704, 1411
    >>

\* The f32 values a voice carries without the model computing them.
FZero == [k |-> "zero"]

FOne == [k |-> "one"]

\* Some f32 left by the signal chain in a phase or a filter memory.
FAny == [k |-> "any"]

\* inst.fx.delay_amount.powf(round as f32); 1.0 to any power is 1.0.
Powf(amount, round) ==
    IF amount.num = amount.den THEN FOne
    ELSE [k |-> "pow", base |-> amount, exp |-> round]

\* get_frequency(ref_freq, semitone, note, ref_pitch), kept as its arguments.
\* The interval is kept by the text of the source: "2.0" or "SEMITONE".
get_frequency(ref_freq, semitone, note, ref_pitch) ==
    [k |-> "freq", ref_freq |-> ref_freq, semitone |-> semitone,
     exp |-> note - ref_pitch]

\* get_note_frequency(note): SEMITONE is the twelfth root of 2.
get_note_frequency(note) == get_frequency(Ratio(1, 256), "SEMITONE", note, 128)

\* Note::new
NewNote(pitch, sample_count, volume, swap_stereo) ==
    [pitch |-> pitch, sample_count |-> sample_count, volume |-> volume,
     swap_stereo |-> swap_stereo,
     osc_freq |-> [o \in 0..1 |-> FZero],
     osc_time |-> [o \in 0..1 |-> FZero],
     low |-> FZero, band |-> FZero]

EmptyNote == NewNote(0, 0, FZero, FALSE)

\* TrackState::new
NewTrackState ==
    [env |-> [attack |-> U32Zero, sustain |-> U32Zero, release |-> U32Zero,
              master |-> Ratio(0, 1)],
     notes |-> [j \in 0..(MAX_OVERLAPPING_NOTES - 1) |-> EmptyNote],
     delay_samples |-> U32Zero,
     delay_count |-> U32Zero,
     pan_freq |-> FZero,
     lfo_freq |-> FZero]

\* A variant of DelayCount that looks at delay_samples before delay_amount,
\* which C24 must tell apart.
DelayCountSamplesFirst(delay_amount, delay_samples) ==
    IF delay_amount.num = 0 THEN U32Zero
    ELSE IF delay_samples = U32Zero THEN U32(1)
    ELSE IF delay_amount.num = delay_amount.den THEN U32_MAX
    ELSE U32(DelayCountTable[delay_amount.num])

\* The delay_count of a track.
DelayCount(delay_amount, delay_samples) ==
    IF delay_amount.num = 0 THEN U32Zero
    ELSE IF delay_amount.num = delay_amount.den THEN U32_MAX
    ELSE IF delay_samples = U32Zero THEN U32(1)
    ELSE U32(DelayCountTable[delay_amount.num])

\* A variant of load_track that takes the LFO and panning bytes in steps of
\* a twelfth of an octave, which C28 must tell apart.
load_track_semitones(inst, sample_rate, quarter_note_length, eighth_note_length) ==
    LET delay == U32MulSmall(inst.fx.delay_time, eighth_note_length)
        qnl == [k |-> "scaled", of |-> quarter_note_length, rate |-> sample_rate]
    IN  [track |->
            [NewTrackState EXCEPT
                !.env.attack = ScaleU32(inst.env.attack, sample_rate),
                !.env.sustain = ScaleU32(inst.env.sustain, sample_rate),
                !.env.release = ScaleU32(inst.env.release, sample_rate),
                !.delay_samples = delay.v,
                !.delay_count = DelayCount(inst.fx.delay_amount, delay.v),
                !.lfo_freq = [num |-> get_frequency(1, "SEMITONE", inst.lfo.freq, 8),
                              den |-> qnl],
                !.pan_freq = [num |-> get_frequency(1, "SEMITONE", inst.fx.pan_freq, 8),
                              den |-> qnl]],
         wrapped |-> delay.ovf]

\* One track of Synth::load_tracks.  `wrapped` tells that delay_time *
\* eighth_note_length overflowed a u32.
load_track(inst, sample_rate, quarter_note_length, eighth_note_length) ==
    LET delay == U32MulSmall(inst.fx.delay_time, eighth_note_length)
        qnl == [k |-> "scaled", of |-> quarter_note_length, rate |-> sample_rate]
    IN  [track |->
            [NewTrackState EXCEPT
                !.env.attack = ScaleU32(inst.env.attack, sample_rate),
                !.env.sustain = ScaleU32(inst.env.sustain, sample_rate),
                !.env.release = ScaleU32(inst.env.release, sample_rate),
                !.delay_samples = delay.v,
                !.delay_count = DelayCount(inst.fx.delay_amount, delay.v),
                !.lfo_freq = [num |-> get_frequency(1, "2.0", inst.lfo.freq, 8), den |-> qnl],
                !.pan_freq = [num |-> get_frequency(1, "2.0", inst.fx.pan_freq, 8), den |-> qnl]],
         wrapped |-> delay.ovf]

\* A variant of get_note_slot that takes the last of the oldest voices, which
\* C14 must tell apart.
get_note_slot_last(notes) ==
    LET slots == DOMAIN notes
        empty == {j \in slots : notes[j].pitch = 0}
        oldest == {j \in slots : \A k \in slots :
                       notes[j].sample_count <= notes[k].sample_count}
    IN  IF empty # {} THEN CHOOSE j \in empty : \A k \in empty : j <= k
        ELSE CHOOSE j \in oldest : \A k \in oldest : j >= k

\* Synth::get_note_slot: the first empty slot, else the first of the oldest.
get_note_slot(notes) ==
    LET slots == DOMAIN notes
        empty == {j \in slots : notes[j].pitch = 0}
        oldest == {j \in slots : \A k \in slots :
                       notes[j].sample_count <= notes[k].sample_count}
    IN  IF empty # {} THEN CHOOSE j \in empty : \A k \in empty : j <= k
        ELSE CHOOSE j \in oldest : \A k \in oldest : j <= k

\* (pitch + w(octave) + w(detune_freq)).0
WrappingPitch(pitch, octave, detune_freq) == (pitch + octave + detune_freq) % 256

\* The voice add_note writes: Note::new and the two oscillator frequencies.
StartedNote(inst, pitch, sample_count, volume, swap_stereo, sample_rate) ==
    [NewNote(pitch, sample_count, volume, swap_stereo) EXCEPT
        !.osc_freq = [o \in 0..1 |->
            [k |-> "osc",
             freq |-> get_note_frequency(
                 WrappingPitch(pitch, inst.osc[o].octave, inst.osc[o].detune_freq)),
             detune |-> inst.osc[o].detune,
             rate |-> sample_rate]]]

\* A variant of add_note in which a rest in the pattern silences the first
\* slot of the track, which C20 must tell apart.
add_note_cutting(s, song, i, seq_count, note_count, volume, swap_stereo) ==
    LET inst == song.instruments[i]
        p == ByteAt(inst.seq, seq_count)
        pitch == ByteAt(inst.pat[p - 1].notes, note_count)
        j == get_note_slot(s.tracks[i].notes)
    IN  IF s.panicked THEN s
        ELSE IF ~InBounds(inst.seq, seq_count) THEN [s EXCEPT !.panicked = TRUE]
        ELSE IF p = 0 THEN s
        ELSE IF p - 1 \notin DOMAIN inst.pat THEN [s EXCEPT !.panicked = TRUE]
        ELSE IF ~InBounds(inst.pat[p - 1].notes, note_count)
        THEN [s EXCEPT !.panicked = TRUE]
        ELSE IF pitch = 0 THEN [s EXCEPT !.tracks[i].notes[0] = EmptyNote]
        ELSE [s EXCEPT !.tracks[i].notes[j] =
                 StartedNote(inst, pitch, s.sample_count, volume, swap_stereo,
                             s.sample_rate)]

\* A variant of add_note that keeps the filter memory of the slot it takes,
\* which C21 must tell apart.
add_note_keeping(s, song, i, seq_count, note_count, volume, swap_stereo) ==
    LET inst == song.instruments[i]
        p == ByteAt(inst.seq, seq_count)
        pitch == ByteAt(inst.pat[p - 1].notes, note_count)
        j == get_note_slot(s.tracks[i].notes)
    IN  IF s.panicked THEN s
        ELSE IF ~InBounds(inst.seq, seq_count) THEN [s EXCEPT !.panicked = TRUE]
        ELSE IF p = 0 THEN s
        ELSE IF p - 1 \notin DOMAIN inst.pat THEN [s EXCEPT !.panicked = TRUE]
        ELSE IF ~InBounds(inst.pat[p - 1].notes, note_count)
        THEN [s EXCEPT !.panicked = TRUE]
        ELSE IF pitch = 0 THEN s
        ELSE [s EXCEPT !.tracks[i].notes[j] =
                 [StartedNote(inst, pitch, s.sample_count, volume, swap_stereo,
                              s.sample_rate)
                     EXCEPT !.low = s.tracks[i].notes[j].low,
                            !.band = s.tracks[i].notes[j].band]]

\* Synth::add_note.  A synth record carries `panicked`: the call unwound.
add_note(s, song, i, seq_count, note_count, volume, swap_stereo) ==
    LET inst == song.instruments[i]
        p == ByteAt(inst.seq, seq_count)
        pitch == ByteAt(inst.pat[p - 1].notes, note_count)
        j == get_note_slot(s.tracks[i].notes)
    IN  IF s.panicked THEN s
        ELSE IF ~InBounds(inst.seq, seq_count) THEN [s EXCEPT !.panicked = TRUE]
        ELSE IF p = 0 THEN s
        ELSE IF p - 1 \notin DOMAIN inst.pat THEN [s EXCEPT !.panicked = TRUE]
        ELSE IF ~InBounds(inst.pat[p - 1].notes, note_count)
        THEN [s EXCEPT !.panicked = TRUE]
        ELSE IF pitch = 0 THEN s
        ELSE [s EXCEPT !.tracks[i].notes[j] =
                 StartedNote(inst, pitch, s.sample_count, volume, swap_stereo,
                             s.sample_rate)]

\* Synth::load_notes, from instrument i on.
RECURSIVE load_notes_from(_, _, _)
load_notes_from(s, song, i) ==
    IF i >= NUM_INSTRUMENTS THEN s
    ELSE load_notes_from(add_note(s, song, i, s.seq_count, s.note_count, FOne, FALSE),
                         song, i + 1)

\* A variant of load_notes that passes over the first instrument, which C19
\* must tell apart.
load_notes_but_first(s, song) ==
    IF s.panicked \/ s.seq_count > song.seq_length THEN s
    ELSE load_notes_from(s, song, 1)

load_notes(s, song) ==
    IF s.panicked \/ s.seq_count > song.seq_length THEN s
    ELSE load_notes_from(s, song, 0)

\* Synth::new.  `checks` is the build's overflow-checks setting: an
\* overflowing u32 operation panics with it and wraps without it.
SynthNew(song, seed, sample_rate, checks) ==
    LET quarter_note_length == ScaleU32(song.quarter_note_length, sample_rate)
        eighth_note_length == U32Half(quarter_note_length)
        loaded == [i \in 0..(NUM_INSTRUMENTS - 1) |->
                      load_track(song.instruments[i], sample_rate,
                                 quarter_note_length, eighth_note_length)]
        synth == [sample_rate |-> sample_rate,
                  random |-> [seed |-> seed, draws |-> 0],
                  quarter_note_length |-> quarter_note_length,
                  eighth_note_length |-> eighth_note_length,
                  seq_count |-> 0,
                  sample_count |-> 0,
                  note_count |-> 0,
                  tracks |-> [i \in 0..(NUM_INSTRUMENTS - 1) |-> loaded[i].track],
                  panicked |-> checks /\ \E i \in 0..(NUM_INSTRUMENTS - 1) :
                                             loaded[i].wrapped]
    IN  load_notes(synth, song)

\* A finite set of integers as the sequence of its elements in ascending order.
Ascending(S) ==
    [n \in 1..Cardinality(S) |->
        CHOOSE x \in S : Cardinality({y \in S : y < x}) = n - 1]

\* 2^32 mod m and 2^32 mod 2m for 0 < m < 2^15.
Pow32Mod(m) == ((HALF % m) * (HALF % m)) % m

Pow32Mod2(m) == 2 * (((HALF % m) * ((HALF \div 2) % m)) % m)

\* The rounds of `for round in 1..=delay_count` that pass `delay > sample_count`,
\* in the order the loop takes them, each with its delay and its round; and
\* whether delay_samples * round overflows a u32 in some round of the loop.
\*
\* A delay_count below u32::MAX is at most 1411 and the loop is taken round by
\* round.  For delay_count = u32::MAX (2^32 - 1 rounds):
\*  - delay_samples = 0: every round has delay 0 and adds the same note at the
\*    same sample_count; from the 9th add on all 8 slots hold that
\*    sample_count, get_note_slot returns slot 0, and the last round decides
\*    slot 0: rounds 1..9 and then round u32::MAX leave the loop's state;
\*  - delay_samples = 1: no product overflows, and rounds 1..sample_count pass;
\*  - delay_samples >= 2: the product overflows.  Without overflow checks it
\*    wraps, and round (d + j * 2^32) / delay_samples has delay d for every
\*    j < delay_samples and every d <= sample_count that makes the quotient
\*    whole; the rounds ascend with (j, d).  (delay_samples < 2^15 here: the
\*    loop runs at a tick, where eighth_note_length <= sample_count < 2^7.)
DelayTaps(delay_samples, delay_count, sample_count) ==
    LET ds == U32Int(delay_samples)
        sc == sample_count
        product(r) == U32MulSmall(r, delay_samples)
        plain == {r \in 1..U32Int(delay_count) :
                      U32Le(product(r).v, U32(sc))}
        keys == {k \in 1..(ds * (sc + 1) - 1) :
                     ((k % (sc + 1)) + (k \div (sc + 1)) * Pow32Mod(ds)) % ds = 0}
        wrapped(k) ==
            LET d == k % (sc + 1)
                j == k \div (sc + 1)
                odd == (d + j * Pow32Mod2(ds)) % (2 * ds) = ds
            IN  [delay |-> d,
                 round |-> IF j = 0 THEN U32(d \div ds) ELSE [k |-> "wrapped"],
                 odd |-> odd]
        tap(r) == [delay |-> U32Int(product(r).v), round |-> U32(r), odd |-> r % 2 = 1]
    IN  IF delay_count # U32_MAX
        THEN [taps |-> [n \in 1..Cardinality(plain) |-> tap(Ascending(plain)[n])],
              ovf |-> \E r \in 1..U32Int(delay_count) : product(r).ovf]
        ELSE IF delay_samples = U32Zero
        THEN [taps |-> [n \in 1..10 |->
                           IF n < 10 THEN [delay |-> 0, round |-> U32(n), odd |-> n % 2 = 1]
                           ELSE [delay |-> 0, round |-> U32_MAX, odd |-> TRUE]],
              ovf |-> FALSE]
        ELSE IF delay_samples = U32(1)
        THEN [taps |-> [n \in 1..sc |-> [delay |-> n, round |-> U32(n), odd |-> n % 2 = 1]],
              ovf |-> FALSE]
        ELSE [taps |-> [n \in 1..Cardinality(keys) |-> wrapped(Ascending(keys)[n])],
              ovf |-> TRUE]

\* One round of Synth::load_delayed_notes that passed `delay > sample_count`.
delayed_note(s, song, i, tap, checks) ==
    LET position == s.sample_count - tap.delay
        pattern_length == U32MulSmall(PATTERN_LENGTH, s.quarter_note_length)
        seq_count == SmallDiv(position, pattern_length.v)
        note_count == SmallDiv(SmallMod(position, pattern_length.v), s.quarter_note_length)
        volume == Powf(song.instruments[i].fx.delay_amount, tap.round)
    IN  IF s.panicked THEN s
        ELSE IF s.quarter_note_length = U32Zero THEN [s EXCEPT !.panicked = TRUE]
        ELSE IF SmallMod(position, s.quarter_note_length) # 0 THEN s
        ELSE IF pattern_length.ovf /\ checks THEN [s EXCEPT !.panicked = TRUE]
        ELSE IF pattern_length.v = U32Zero THEN [s EXCEPT !.panicked = TRUE]
        ELSE IF seq_count > song.seq_length THEN s
        ELSE add_note(s, song, i, seq_count, note_count, volume, tap.odd)

\* The rounds taps[lo..hi] in order (the range is halved to keep the
\* evaluation shallow; the order of the rounds is the loop's).
RECURSIVE delayed_rounds_from(_, _, _, _, _, _, _)
delayed_rounds_from(s, song, i, taps, lo, hi, checks) ==
    IF lo > hi THEN s
    ELSE IF lo = hi THEN delayed_note(s, song, i, taps[lo], checks)
    ELSE LET mid == (lo + hi) \div 2
             first == delayed_rounds_from(s, song, i, taps, lo, mid, checks)
         IN  IF first.panicked THEN first
             ELSE delayed_rounds_from(first, song, i, taps, mid + 1, hi, checks)

\* Synth::load_delayed_notes, from instrument i on.
RECURSIVE load_delayed_notes_from(_, _, _, _)
load_delayed_notes_from(s, song, i, checks) ==
    IF i >= NUM_INSTRUMENTS \/ s.panicked THEN s
    ELSE LET t == DelayTaps(s.tracks[i].delay_samples, s.tracks[i].delay_count,
                            s.sample_count)
             after == delayed_rounds_from(s, song, i, t.taps, 1, Len(t.taps), checks)
         IN  load_delayed_notes_from(
                 IF t.ovf /\ checks THEN [s EXCEPT !.panicked = TRUE] ELSE after,
                 song, i + 1, checks)

load_delayed_notes(s, song, checks) == load_delayed_notes_from(s, song, 0, checks)

\* x - y on u32, wrapping.
U32SubWrap(x, y) ==
    IF U32Le(y, x) THEN U32Sub(x, y)
    ELSE LET d == U32Sub(y, x)                    \* 2^32 - d
             m == U32Sub(U32_MAX, d)              \* 2^32 - 1 - d
         IN  U32Add(m, U32(1)).v

\* Synth::env: None, or the envelope kept as the quantities it divides;
\* `panic` when attack + sustain + release overflows under overflow checks.
env(position, inst_env, checks) ==
    LET attack == inst_env.attack
        sustain == inst_env.sustain
        release == inst_env.release
        pos == U32(position)
        as == U32Add(attack, sustain)
        asr == U32Add(as.v, release)
        hold == U32SubWrap(pos, attack)
        rel == U32SubWrap(hold, sustain)
    IN  IF U32Lt(pos, attack)
        THEN [kind |-> "Some", env |-> [k |-> "attack", position |-> pos, attack |-> attack]]
        ELSE IF checks /\ (as.ovf \/ asr.ovf) THEN Panic
        ELSE IF U32Le(asr.v, pos) THEN [kind |-> "None"]
        ELSE IF U32Le(as.v, pos)
        THEN IF checks /\ U32Lt(hold, sustain) THEN Panic
             ELSE [kind |-> "Some", env |-> [k |-> "release", pos |-> rel, release |-> release]]
        ELSE [kind |-> "Some", env |-> [k |-> "sustain"]]

\* ---------------------------------------------------------------- samples
\* An f32 sample: a finite value (an integer here), an infinity or a NaN.
Fin(n) == [k |-> "fin", n |-> n]

PosInf == [k |-> "inf", sign |-> 1]

NegInf == [k |-> "inf", sign |-> -1]

NaN == [k |-> "nan"]

\* a + b on f32.
FAdd(a, b) ==
    IF a.k = "nan" \/ b.k = "nan" THEN NaN
    ELSE IF a.k = "inf" /\ b.k = "inf" THEN (IF a.sign = b.sign THEN a ELSE NaN)
    ELSE IF a.k = "inf" THEN a
    ELSE IF b.k = "inf" THEN b
    ELSE Fin(a.n + b.n)

\* The pairs [sample * pan_t, sample * (1.0 - pan_t)] the runs take for the
\* signal chain of a voice.
VoiceOut ==
    {<<Fin(20000), Fin(-50000)>>, <<PosInf, NegInf>>, <<NaN, Fin(0)>>}

\* i16::max_value() as f32
AMPLITUDE == 32767

\* A frame channel: an f32 as num / den.
\* sample / amplitude
FDivAmplitude(x) ==
    IF x.k = "fin" THEN [k |-> "fin", num |-> x.n, den |-> AMPLITUDE] ELSE x

\* x.min(1.0): f32::min returns the other operand when one is NaN.
FMinOne(x) ==
    IF x.k = "nan" THEN [k |-> "fin", num |-> 1, den |-> 1]
    ELSE IF x.k = "inf" THEN (IF x.sign > 0 THEN [k |-> "fin", num |-> 1, den |-> 1] ELSE x)
    ELSE IF x.num > x.den THEN [k |-> "fin", num |-> 1, den |-> 1] ELSE x

\* x.max(-1.0)
FMaxMinusOne(x) ==
    IF x.k = "nan" THEN [k |-> "fin", num |-> -1, den |-> 1]
    ELSE IF x.k = "inf" THEN (IF x.sign < 0 THEN [k |-> "fin", num |-> -1, den |-> 1] ELSE x)
    ELSE IF x.num < -x.den THEN [k |-> "fin", num |-> -1, den |-> 1] ELSE x

\* A variant of Clip without the lower clamp, which C9 must tell apart.
ClipAbove(x) == FMinOne(FDivAmplitude(x))

\* (samples[i] / amplitude).min(1.0).max(-1.0)
Clip(x) == FMaxMinusOne(FMinOne(FDivAmplitude(x)))

\* Synth::generate_samples for voice (i, j), up to the envelope: None, a
\* panic, or Some; with Some one random number is drawn and the voice's
\* phases and filter memory move.
generate_samples(s, i, j, checks) ==
    env(s.sample_count - s.tracks[i].notes[j].sample_count, s.tracks[i].env, checks)

\* The voice generate_samples leaves behind when it returns Some.
Sounded(note) ==
    [note EXCEPT !.osc_time = [o \in 0..1 |-> FAny], !.low = FAny, !.band = FAny]

\* A variant of update that draws one random number for the whole frame,
\* which C27 must tell apart.
update_drawing_once(s, checks) ==
    LET active == {v \in (0..(NUM_INSTRUMENTS - 1)) \X (0..(MAX_OVERLAPPING_NOTES - 1)) :
                       s.tracks[v[1]].notes[v[2]].pitch # 0}
        g == [v \in active |-> generate_samples(s, v[1], v[2], checks)]
        mixed == {v \in active : g[v].kind = "Some"}
        ended == {v \in active : g[v].kind = "None"}
    IN  [s |-> [s EXCEPT
                  !.panicked = \E v \in active : g[v].kind = "Panic",
                  !.random.draws = @ + (IF mixed = {} THEN 0 ELSE 1),
                  !.tracks = [i \in DOMAIN @ |->
                      [@[i] EXCEPT !.notes = [j \in DOMAIN @ |->
                          IF <<i, j>> \in mixed THEN Sounded(@[j])
                          ELSE IF <<i, j>> \in ended THEN EmptyNote
                          ELSE @[j]]]]],
         mixed |-> mixed]

\* Synth::update.  An iteration of its loops reads and writes its own voice
\* and the random generator only, so the loop is taken voice by voice:
\* `s` is the synth after the loop and `mixed` the voices that were mixed.
update(s, checks) ==
    LET active == {v \in (0..(NUM_INSTRUMENTS - 1)) \X (0..(MAX_OVERLAPPING_NOTES - 1)) :
                       s.tracks[v[1]].notes[v[2]].pitch # 0}
        g == [v \in active |-> generate_samples(s, v[1], v[2], checks)]
        mixed == {v \in active : g[v].kind = "Some"}
        ended == {v \in active : g[v].kind = "None"}
    IN  [s |-> [s EXCEPT
                  !.panicked = \E v \in active : g[v].kind = "Panic",
                  !.random.draws = @ + Cardinality(mixed),
                  !.tracks = [i \in DOMAIN @ |->
                      [@[i] EXCEPT !.notes = [j \in DOMAIN @ |->
                          IF <<i, j>> \in mixed THEN Sounded(@[j])
                          ELSE IF <<i, j>> \in ended THEN EmptyNote
                          ELSE @[j]]]]],
         mixed |-> mixed]

\* The mixing loop of update over the mixed voices, last voice first.
RECURSIVE Mix(_, _, _)
Mix(s, mixed, out) ==
    IF mixed = {} THEN <<Fin(0), Fin(0)>>
    ELSE LET v == CHOOSE x \in mixed : \A y \in mixed :
                      x[1] > y[1] \/ (x[1] = y[1] /\ x[2] >= y[2])
             swap == s.tracks[v[1]].notes[v[2]].swap_stereo
             m == Mix(s, mixed \ {v}, out)
         IN  <<FAdd(m[1], IF swap THEN out[2] ELSE out[1]),
               FAdd(m[2], IF swap THEN out[1] ELSE out[2])>>

\* The frame update returns.
Frame(s, mixed, out) ==
    LET m == Mix(s, mixed, out) IN <<Clip(m[1]), Clip(m[2])>>

\* A variant of the end-of-song test that waits one pattern longer, which
\* C13 and C18 must tell apart.
EndOfSongLate(s, song) ==
    /\ s.seq_count > song.seq_length + 1
    /\ ~\E i \in 0..(NUM_INSTRUMENTS - 1), j \in 0..(MAX_OVERLAPPING_NOTES - 1) :
           s.tracks[i].notes[j].pitch # 0

\* The end-of-song test of Synth::next.
EndOfSong(s, song) ==
    /\ s.seq_count > song.seq_length
    /\ ~\E i \in 0..(NUM_INSTRUMENTS - 1), j \in 0..(MAX_OVERLAPPING_NOTES - 1) :
           s.tracks[i].notes[j].pitch # 0

\* A variant of advance that wraps note_count one tick late, which C17 must
\* tell apart.
advance_wrap_late(s, song, checks) ==
    LET counted == [s EXCEPT !.sample_count = @ + 1]
        sample_in_quarter_note == SmallMod(counted.sample_count, s.quarter_note_length)
        wrap == s.note_count + 1 > PATTERN_LENGTH
        ticked == [counted EXCEPT
                      !.note_count = IF wrap THEN 0 ELSE @ + 1,
                      !.seq_count = IF wrap THEN @ + 1 ELSE @]
    IN  IF s.panicked THEN s
        ELSE IF s.quarter_note_length = U32Zero THEN [counted EXCEPT !.panicked = TRUE]
        ELSE IF sample_in_quarter_note = 0
        THEN load_notes(load_delayed_notes(ticked, song, checks), song)
        ELSE IF U32(sample_in_quarter_note) = s.eighth_note_length
        THEN load_delayed_notes(counted, song, checks)
        ELSE counted

\* Synth::next after update: advance to the next sample.
advance(s, song, checks) ==
    LET counted == [s EXCEPT !.sample_count = @ + 1]
        sample_in_quarter_note == SmallMod(counted.sample_count, s.quarter_note_length)
        wrap == s.note_count + 1 >= PATTERN_LENGTH
        ticked == [counted EXCEPT
                      !.note_count = IF wrap THEN 0 ELSE @ + 1,
                      !.seq_count = IF wrap THEN @ + 1 ELSE @]
    IN  IF s.panicked THEN s
        ELSE IF s.quarter_note_length = U32Zero THEN [counted EXCEPT !.panicked = TRUE]
        ELSE IF sample_in_quarter_note = 0
        THEN load_notes(load_delayed_notes(ticked, song, checks), song)
        ELSE IF U32(sample_in_quarter_note) = s.eighth_note_length
        THEN load_delayed_notes(counted, song, checks)
        ELSE counted

\* ---------------------------------------------------------------- inputs
InstrumentBase(i) == HEADER_LENGTH + i * INSTRUMENT_LENGTH

FooterOffset == HEADER_LENGTH + INSTRUMENT_LENGTH * NUM_INSTRUMENTS

\* The all-zero image.
ZeroTemplate == [k \in {} |-> 0]

\* A short song: quarter_note_length 2, one pattern played.  Instrument 0
\* plays pattern 1 (three notes, envelope 2/1/3); instrument 1 plays pattern 2
\* (two notes, envelope 1/0/1) with a delay of one eighth note and amount
\* 128/255 (8 repeats).
DemoTemplate ==
    (0 :> 2)
    @@ (InstrumentBase(0) + SeqOffset :> 1)
    @@ (InstrumentBase(0) + PatOffset :> 140)
    @@ (InstrumentBase(0) + PatOffset + 1 :> 152)
    @@ (InstrumentBase(0) + PatOffset + 30 :> 128)
    @@ (InstrumentBase(0) + EnvOffset :> 2)
    @@ (InstrumentBase(0) + EnvOffset + 4 :> 1)
    @@ (InstrumentBase(0) + EnvOffset + 8 :> 3)
    @@ (InstrumentBase(1) + SeqOffset :> 2)
    @@ (InstrumentBase(1) + PatOffset + PATTERN_LENGTH :> 100)
    @@ (InstrumentBase(1) + PatOffset + PATTERN_LENGTH + 4 :> 90)
    @@ (InstrumentBase(1) + EnvOffset :> 1)
    @@ (InstrumentBase(1) + EnvOffset + 8 :> 1)
    @@ (InstrumentBase(1) + FxOffset + 3 + 5 :> 1)
    @@ (InstrumentBase(1) + FxOffset + 3 + 6 :> 128)

\* A song whose last note is echoed: quarter_note_length 2, one pattern
\* played.  Instrument 0 plays pattern 1 (one note, in the last row, envelope
\* 1/0/1) with a delay of one eighth note and amount 64/255 (4 repeats).
EchoTemplate ==
    (0 :> 2)
    @@ (InstrumentBase(0) + SeqOffset :> 1)
    @@ (InstrumentBase(0) + PatOffset + 31 :> 120)
    @@ (InstrumentBase(0) + EnvOffset :> 1)
    @@ (InstrumentBase(0) + EnvOffset + 8 :> 1)
    @@ (InstrumentBase(0) + FxOffset + 8 :> 1)
    @@ (InstrumentBase(0) + FxOffset + 9 :> 64)

\* The single bytes an explored image overrides in the all-zero image:
\* <<offset, byte>>.
Patches ==
    {<<0, 1>>, <<0, 4>>, <<0, 5>>, <<3, 128>>,
     <<FooterOffset, 1>>, <<FooterOffset, 48>>, <<FooterOffset, 49>>,
     <<FooterOffset, 255>>,
     <<InstrumentBase(0) + 5, 3>>, <<InstrumentBase(0) + 5, 4>>,
     <<InstrumentBase(0) + 11, 255>>,
     <<InstrumentBase(0) + 29, 4>>, <<InstrumentBase(0) + 29, 5>>,
     <<InstrumentBase(0) + 41, 1>>,
     <<InstrumentBase(0) + 45, 3>>, <<InstrumentBase(0) + 45, 4>>,
     <<InstrumentBase(0) + 49, 4>>,
     <<InstrumentBase(3) + 11, 4>>,
     <<InstrumentBase(7) + 5, 4>>, <<InstrumentBase(7) + 29, 5>>,
     <<InstrumentBase(7) + 45, 7>>,
     <<InstrumentBase(0) + 46, 10>>, <<InstrumentBase(0) + 46, 11>>,
     <<InstrumentBase(0) + 46, 255>>, <<InstrumentBase(0) + 93, 200>>,
     <<InstrumentBase(0) + 94, 255>>, <<InstrumentBase(0) + 97, 9>>,
     <<InstrumentBase(0) + 98, 12>>,
     <<InstrumentBase(7) + 415, 7>>,
     <<InstrumentBase(0), 0>>, <<InstrumentBase(0), 7>>, <<InstrumentBase(0), 255>>,
     <<InstrumentBase(0) + 12, 255>>, <<InstrumentBase(0) + 19, 255>>}

\* The single bytes an explored image overrides in the short song.
DemoPatches ==
    {<<0, 0>>, <<3, 128>>, <<FooterOffset, 1>>,
     <<InstrumentBase(0) + SeqOffset, 10>>, <<InstrumentBase(0) + SeqOffset, 11>>,
     <<InstrumentBase(0) + EnvOffset + 7, 255>>,
     <<InstrumentBase(0) + EnvOffset + 8, 0>>,
     <<InstrumentBase(0) + NoiseOffset, 255>>,
     <<InstrumentBase(1) + EnvOffset + 4, 130>>,
     <<InstrumentBase(1) + FxOffset + 8, 0>>, <<InstrumentBase(1) + FxOffset + 8, 2>>,
     <<InstrumentBase(1) + FxOffset + 9, 0>>, <<InstrumentBase(1) + FxOffset + 9, 255>>}

\* The single bytes an explored image overrides in the echo song: a delay
\* of four eighth notes, longer than the envelope.
EchoPatches ==
    {<<InstrumentBase(0) + FxOffset + 8, 4>>}

\* A template with one byte overridden.
Patched(template, q) ==
    LET byte(k) == IF k = q[1] THEN q[2] ELSE template[k]
        nonzero == {k \in (DOMAIN template) \cup {q[1]} : byte(k) # 0}
    IN  [k \in nonzero |-> byte(k)]

\* The explored images, cut to the length of the slice.
Images ==
    {ZeroTemplate, DemoTemplate, EchoTemplate}
    \cup {Patched(ZeroTemplate, q) : q \in Patches}
    \cup {Patched(DemoTemplate, q) : q \in DemoPatches}
    \cup {Patched(EchoTemplate, q) : q \in EchoPatches}

\* The lengths of the explored slices.
Lengths == {0, SONG_LENGTH - 1, SONG_LENGTH, SONG_LENGTH + 1}

\* ---------------------------------------------------------------- the machine
VARIABLES
    slice,     \* the byte slice given to Song::from_slice
    checks,    \* whether the build panics on integer overflow
    chain,     \* what the signal chain of a voice yields: <<left, right>>
    pc,        \* "decode", "rejected", "decoded", "playing", "panicked"
    song,      \* the result of Song::from_slice
    synth,     \* the Synth
    ret,       \* what the last call of Synth::next returned
    frames,    \* the number of frames Synth::next has returned
    twin,      \* a second Synth of the same song, where one is built
    twin_ret   \* what the last call of Synth::next on the twin returned

vars == <<slice, checks, chain, pc, song, synth, ret, frames, twin, twin_ret>>

NoSynth == [panicked |-> FALSE]

NotCalled == [kind |-> "NotCalled"]

Init ==
    /\ \E image \in Images, len \in Lengths :
           slice = [len |-> len,
                    bytes |-> [k \in {x \in DOMAIN image : x < len} |-> image[k]]]
    /\ checks \in BOOLEAN
    /\ chain \in VoiceOut
    /\ pc = "decode"
    /\ song = NotCalled
    /\ synth = NoSynth
    /\ ret = NotCalled
    /\ frames = 0
    /\ twin = NoSynth
    /\ twin_ret = NotCalled

\* Song::from_slice(slice)
Decode ==
    /\ pc = "decode"
    /\ song' = from_slice(slice)
    /\ pc' = CASE song'.kind = "Ok" -> "decoded"
               [] song'.kind = "Err" -> "rejected"
               [] OTHER -> "panicked"
    /\ UNCHANGED <<slice, checks, chain, synth, ret, frames, twin, twin_ret>>

\* Synth::new(&song, seed, sample_rate)
New ==
    /\ pc = "decoded"
    /\ \E seed \in Seeds, sample_rate \in SampleRates :
           synth' = SynthNew(song.v, seed, sample_rate, checks)
    /\ pc' = IF synth'.panicked THEN "panicked" ELSE "playing"
    /\ UNCHANGED <<slice, checks, chain, song, ret, frames, twin, twin_ret>>

\* A variant of next that goes on counting samples after the end of the
\* song, which C29 must tell apart.
next_counting_on(s, sng, chk, out) ==
    IF EndOfSong(s, sng)
    THEN [s |-> [s EXCEPT !.sample_count = @ + 1], ret |-> [kind |-> "None"]]
    ELSE LET u == update(s, chk)
             after == advance(u.s, sng, chk)
         IN  [s |-> after,
              ret |-> IF after.panicked THEN Panic
                      ELSE [kind |-> "Some", frame |-> Frame(u.s, u.mixed, out)]]

\* Synth::next on the synth s: the synth it leaves and what it returns.
next(s, sng, chk, out) ==
    IF EndOfSong(s, sng) THEN [s |-> s, ret |-> [kind |-> "None"]]
    ELSE LET u == update(s, chk)
             after == advance(u.s, sng, chk)
         IN  [s |-> after,
              ret |-> IF after.panicked THEN Panic
                      ELSE [kind |-> "Some", frame |-> Frame(u.s, u.mixed, out)]]

\* A call of Synth::next on `synth`.
Call ==
    /\ pc = "playing"
    /\ synth.sample_count < MaxSamples
    /\ LET r == next(synth, song.v, checks, chain)
       IN  /\ synth' = r.s
           /\ ret' = r.ret
           /\ pc' = IF r.ret = Panic THEN "panicked" ELSE pc
           /\ frames' = IF r.ret.kind = "Some" THEN frames + 1 ELSE frames
    /\ UNCHANGED <<slice, checks, chain, song>>

\* Synth::next
SynthNext == Call /\ UNCHANGED <<twin, twin_ret>>

Next == Decode \/ New \/ SynthNext

Spec == Init /\ [][Next]_vars

\* The images of the runs in which the caller goes on calling next: the
\* demo song with the delay amount of its second instrument at 255, and the
\* echo song, whose taps are finitely many.
LiveImages ==
    {Patched(DemoTemplate, <<InstrumentBase(1) + FxOffset + 9, 255>>), EchoTemplate}

LiveInit ==
    /\ \E image \in LiveImages : slice = [len |-> SONG_LENGTH, bytes |-> image]
    /\ checks \in BOOLEAN
    /\ chain = <<Fin(20000), Fin(-50000)>>
    /\ pc = "decode"
    /\ song = NotCalled
    /\ synth = NoSynth
    /\ ret = NotCalled
    /\ frames = 0
    /\ twin = NoSynth
    /\ twin_ret = NotCalled

\* A call of next is pending: the caller has a synth, has not been told
\* None, and the run is below its horizon.
CallPending ==
    pc = "playing" /\ synth.sample_count < MaxSamples /\ ret.kind # "None"

\* A step in which a pending call of next took effect, by what every such
\* step does: it returns None and leaves the synth alone, or it returns a
\* frame or panics.
Called ==
    /\ CallPending
    /\ \/ /\ ret' = [kind |-> "None"]
          /\ UNCHANGED <<slice, checks, chain, pc, song, synth, frames, twin, twin_ret>>
       \/ /\ ret'.kind \in {"Some", "Panic"}
          /\ UNCHANGED <<slice, checks, chain, song, twin, twin_ret>>

\* The caller goes on calling next: `for frame in synth`.
LiveSpec == LiveInit /\ [][Next]_vars /\ WF_vars(Called)

\* Two synths of one song.  The seeds the two are built from, the images and
\* the signal: what the chain of a voice yields is a function of the song,
\* the seed and the sample rate, so the two share `chain`.
TwinSeeds == {<<1, 2>>, <<3, 4>>}

TwinImages ==
    {DemoTemplate, EchoTemplate,
     Patched(DemoTemplate, <<InstrumentBase(1) + EnvOffset + 4, 130>>),
     Patched(DemoTemplate, <<InstrumentBase(1) + FxOffset + 9, 255>>)}

TwinInit ==
    /\ \E image \in TwinImages : slice = [len |-> SONG_LENGTH, bytes |-> image]
    /\ checks \in BOOLEAN
    /\ chain = <<Fin(20000), Fin(-50000)>>
    /\ pc = "decode"
    /\ song = NotCalled
    /\ synth = NoSynth
    /\ ret = NotCalled
    /\ frames = 0
    /\ twin = NoSynth
    /\ twin_ret = NotCalled

\* A variant of TwinNew that builds the twin from a seed of its own, which
\* C15 must tell apart.
TwinNewOwnSeed ==
    /\ pc = "decoded"
    /\ \E seed \in TwinSeeds, sample_rate \in SampleRates : \E own \in TwinSeeds \ {seed} :
           /\ synth' = SynthNew(song.v, seed, sample_rate, checks)
           /\ twin' = SynthNew(song.v, own, sample_rate, checks)
    /\ pc' = IF synth'.panicked THEN "panicked" ELSE "playing"
    /\ UNCHANGED <<slice, checks, chain, song, ret, frames, twin_ret>>

\* Synth::new(&song, seed, sample_rate), twice with the same arguments.
TwinNew ==
    /\ pc = "decoded"
    /\ \E seed \in TwinSeeds, sample_rate \in SampleRates :
           /\ synth' = SynthNew(song.v, seed, sample_rate, checks)
           /\ twin' = SynthNew(song.v, seed, sample_rate, checks)
    /\ pc' = IF synth'.panicked THEN "panicked" ELSE "playing"
    /\ UNCHANGED <<slice, checks, chain, song, ret, frames, twin_ret>>

\* Synth::next on both synths, call by call.
TwinNext ==
    /\ Call
    /\ LET r == next(twin, song.v, checks, chain)
       IN  twin' = r.s /\ twin_ret' = r.ret

TwinStep == Decode \/ TwinNew \/ TwinNext

TwinSpec == TwinInit /\ [][TwinStep]_vars

\* The short song with every octave byte for the first oscillator of its
\* first instrument, and some detune_freq bytes for the second.
Bytes == 0..255

DetuneBytes == {0, 1, 116, 255}

WrapInit ==
    /\ \E b \in Bytes, d \in DetuneBytes :
           slice = [len |-> SONG_LENGTH,
                    bytes |-> Patched(Patched(DemoTemplate, <<InstrumentBase(0), b>>),
                                      <<InstrumentBase(0) + OSCILLATOR_LENGTH + 1, d>>)]
    /\ checks \in BOOLEAN
    /\ chain = <<Fin(20000), Fin(-50000)>>
    /\ pc = "decode"
    /\ song = NotCalled
    /\ synth = NoSynth
    /\ ret = NotCalled
    /\ frames = 0
    /\ twin = NoSynth
    /\ twin_ret = NotCalled

\* Decoding and the note-ons of Synth::new.
WrapStep == Decode \/ New

WrapSpec == WrapInit /\ [][WrapStep]_vars

\* The delay of one track over its two bytes: the images of the demo song
\* with the delay amount and the delay time of instrument 0 overridden.
DelayAmountBytes == {0, 1, 15, 16, 40, 41, 63, 64, 84, 85, 127, 128, 255}

DelayTimeBytes == {0, 1, 3}

DelayInit ==
    /\ \E b \in DelayAmountBytes, d \in DelayTimeBytes :
           slice = [len |-> SONG_LENGTH,
                    bytes |-> Patched(Patched(DemoTemplate,
                                              <<InstrumentBase(0) + FxOffset + 9, b>>),
                                      <<InstrumentBase(0) + FxOffset + 8, d>>)]
    /\ checks \in BOOLEAN
    /\ chain = <<Fin(20000), Fin(-50000)>>
    /\ pc = "decode"
    /\ song = NotCalled
    /\ synth = NoSynth
    /\ ret = NotCalled
    /\ frames = 0
    /\ twin = NoSynth
    /\ twin_ret = NotCalled

DelaySpec == DelayInit /\ [][WrapStep]_vars

\* The envelope over its three times: the images of the demo song with the
\* attack, the sustain (low byte and top byte) and the release of instrument 0
\* overridden.
EnvAttacks == {0, 1, 2}

EnvSustains == {0, 1}

EnvSustainTops == {0, 255}

EnvReleases == {0, 1, 3}

EnvInit ==
    /\ \E a \in EnvAttacks, su \in EnvSustains, top \in EnvSustainTops, r \in EnvReleases :
           slice = [len |-> SONG_LENGTH,
                    bytes |-> Patched(Patched(Patched(Patched(DemoTemplate,
                                  <<InstrumentBase(0) + EnvOffset, a>>),
                                  <<InstrumentBase(0) + EnvOffset + 4, su>>),
                                  <<InstrumentBase(0) + EnvOffset + 7, top>>),
                                  <<InstrumentBase(0) + EnvOffset + 8, r>>)]
    /\ checks \in BOOLEAN
    /\ chain = <<Fin(20000), Fin(-50000)>>
    /\ pc = "decode"
    /\ song = NotCalled
    /\ synth = NoSynth
    /\ ret = NotCalled
    /\ frames = 0
    /\ twin = NoSynth
    /\ twin_ret = NotCalled

EnvSpec == EnvInit /\ [][Next]_vars

\* The LFO and panning frequencies over their bytes: the images of the demo
\* song with the LFO rate and the panning frequency of instrument 0
\* overridden.
FreqBytes == {0, 7, 8, 9, 20, 255}

FreqInit ==
    /\ \E l \in FreqBytes, p \in FreqBytes :
           slice = [len |-> SONG_LENGTH,
                    bytes |-> Patched(Patched(DemoTemplate,
                                              <<InstrumentBase(0) + LfoOffset + 2, l>>),
                                      <<InstrumentBase(0) + FxOffset + 10, p>>)]
    /\ checks \in BOOLEAN
    /\ chain = <<Fin(20000), Fin(-50000)>>
    /\ pc = "decode"
    /\ song = NotCalled
    /\ synth = NoSynth
    /\ ret = NotCalled
    /\ frames = 0
    /\ twin = NoSynth
    /\ twin_ret = NotCalled

FreqSpec == FreqInit /\ [][WrapStep]_vars

\* ---------------------------------------------------------------- properties
Instruments == 0..(NUM_INSTRUMENTS - 1)

\* The offsets in the image of the 16 oscillator waveform bytes and the 8 LFO
\* waveform bytes, and of the 8 filter bytes.
WaveformOffsets == {InstrumentBase(i) + o : i \in Instruments, o \in {5, 11, 45}}

FilterOffsets == {InstrumentBase(i) + 29 : i \in Instruments}

BadWaveform == \E k \in WaveformOffsets : ByteAt(slice, k) > 3

BadFilter == \E k \in FilterOffsets : ByteAt(slice, k) > 4

\* The little-endian u32 in bytes 0..4 of the image.
RawHeader ==
    [hi |-> ByteAt(slice, 3) * 256 + ByteAt(slice, 2),
     lo |-> ByteAt(slice, 1) * 256 + ByteAt(slice, 0)]

\* C1: Song::from_slice returns Err(FileLength) for every slice whose length
\* is not 3333, whatever its contents.
C1_FileLength ==
    (pc # "decode" /\ slice.len # 3333) => song = Err("FileLength")

\* A slice one byte too long that holds a byte the decoder would reject was
\* turned down for its length.
C1_Witness ==
    /\ slice.len = 3334
    /\ ByteAt(slice, 9) = 4
    /\ song = Err("FileLength")

\* C2: a 3333-byte image whose waveform bytes are in 0..=3 and whose filter
\* bytes are in 0..=4 decodes to Ok, whatever its other bytes; the all-zero
\* image decodes to a song with seq_length = 0.
C2_DecodeTotal ==
    (pc # "decode" /\ slice.len = 3333 /\ ~BadWaveform /\ ~BadFilter)
        => /\ song.kind = "Ok"
           /\ (DOMAIN slice.bytes = {}) => song.v.seq_length = 0

\* An image with a sequence byte that names no pattern was decoded.
C2_Witness ==
    /\ song.kind = "Ok"
    /\ slice.len = 3333
    /\ ByteAt(slice, 50) = 255

\* C3: in a 3333-byte image that is otherwise valid, a waveform byte above 3
\* gives Err(InvalidWaveform) and a filter byte above 4 gives
\* Err(InvalidFilter); no Song is produced.
C3_InvalidSelector ==
    (pc # "decode" /\ slice.len = 3333)
        => /\ (BadWaveform /\ ~BadFilter) => song = Err("InvalidWaveform")
           /\ (BadFilter /\ ~BadWaveform) => song = Err("InvalidFilter")

\* The image with byte 9 set to 4 was turned down.
C3_Witness ==
    /\ slice.len = 3333
    /\ ByteAt(slice, 9) = 4
    /\ song = Err("InvalidWaveform")

\* C4: for every decoded song, Synth::new and every call of next return
\* normally: nothing panics.
C4_SynthNeverFails ==
    song.kind = "Ok" => pc # "panicked"

\* C5: every decoded sequence entry is in 0..=10 and every pattern note is in
\* 0..=255.
C5_SequenceRange ==
    pc = "decoded"
        => \A i \in Instruments :
               /\ \A k \in 0..47 : ByteAt(song.v.instruments[i].seq, k) \in 0..10
               /\ \A p \in 0..9, n \in 0..31 :
                      ByteAt(song.v.instruments[i].pat[p].notes, n) \in 0..255

\* C6: seq_length of a decoded song is in 0..=48.
C6_SeqLengthRange ==
    pc = "decoded" => song.v.seq_length \in 0..48

\* C7: quarter_note_length of a decoded song is even and equals
\* raw - (raw mod 2), raw being the little-endian u32 in bytes 0..4.
C7_EvenQuarterNote ==
    pc = "decoded"
        => /\ song.v.quarter_note_length.lo % 2 = 0
           /\ song.v.quarter_note_length =
                  [RawHeader EXCEPT !.lo = @ - (@ % 2)]

\* An image with an odd header was decoded.
C7_Witness ==
    /\ pc = "decoded"
    /\ ByteAt(slice, 0) = 5
    /\ song.v.quarter_note_length = [hi |-> 0, lo |-> 4]

\* The instrument blocks of a decoded song were read with the LFO at local
\* offset lfo, the sequence at seq and the patterns at pat.
ReadAt(lfo, seq, pat) ==
    \A i \in Instruments :
        LET b == InstrumentBase(i)
            inst == song.v.instruments[i]
        IN  /\ inst.lfo.osc0_freq = (ByteAt(slice, b + lfo) # 0)
            /\ inst.lfo.fx_freq = (ByteAt(slice, b + lfo + 1) # 0)
            /\ inst.lfo.freq = ByteAt(slice, b + lfo + 2)
            /\ inst.lfo.amount.num = ByteAt(slice, b + lfo + 3)
            /\ ByteAt(slice, b + lfo + 4) < 4
            /\ inst.lfo.waveform = Waveforms[ByteAt(slice, b + lfo + 4) + 1]
            /\ \A k \in 0..47 : ByteAt(inst.seq, k) = ByteAt(slice, b + seq + k)
            /\ \A p \in 0..9, n \in 0..31 :
                   ByteAt(inst.pat[p].notes, n) = ByteAt(slice, b + pat + 32 * p + n)

\* C8: the decoder reads the LFO osc0_freq toggle from local offset 45, the
\* other LFO bytes from 46..50, the sequence from 50..98 and pattern p from
\* 98 + 32 * p.
C8_LayoutAsWritten ==
    pc = "decoded" => ReadAt(45, 50, 98)

\* C8, amended: the decoder reads the LFO osc0_freq toggle from local offset
\* 41, the other LFO bytes from 42..46, the sequence from 46..94 and pattern
\* p from 94 + 32 * p.
C8_Layout ==
    pc = "decoded" => ReadAt(41, 46, 94)

\* An image with a byte at local offset 46 was decoded: it is the first
\* sequence entry.
C8_Witness ==
    /\ pc = "decoded"
    /\ ByteAt(slice, InstrumentBase(0) + 46) = 10
    /\ ByteAt(song.v.instruments[0].seq, 0) = 10

\* A frame channel within [-1, 1].
InUnit(x) == x.k = "fin" /\ x.den > 0 /\ -x.den <= x.num /\ x.num <= x.den

\* C9: every frame returned by next has both channels within [-1, 1].
C9_FrameRange ==
    ret.kind = "Some" => InUnit(ret.frame[1]) /\ InUnit(ret.frame[2])

\* Voices that sum to more than the amplitude on the left and to less than
\* its negative on the right were clamped.
C9_Witness ==
    /\ ret.kind = "Some"
    /\ chain = <<Fin(20000), Fin(-50000)>>
    /\ ret.frame = <<[k |-> "fin", num |-> 1, den |-> 1],
                     [k |-> "fin", num |-> -1, den |-> 1]>>

\* C10: a call of next returns None exactly when seq_count > seq_length and
\* every voice slot has pitch 0 at the time of the call, and returns a frame
\* in every other state.
C10_NoneExactlyAtEnd ==
    [][pc = "playing"
          => /\ (ret'.kind = "None") <=> EndOfSong(synth, song.v)
             /\ ~EndOfSong(synth, song.v) => ret'.kind = "Some"]_vars

\* C11: for a decoded song with a non-zero quarter_note_length, repeated
\* calls of next eventually return None (as far as the explored runs go:
\* a run that reaches MaxSamples frames is left open).
C11_StreamEnds ==
    (pc = "playing" /\ song.v.quarter_note_length # U32Zero)
        ~> (\/ ret.kind = "None"
            \/ pc = "playing" /\ synth.sample_count >= MaxSamples)

\* A decoded song with no pattern to play: seq_length 0 and every sequence
\* entry of every instrument 0.
SilentSong ==
    /\ IsOk(song)
    /\ song.v.seq_length = 0
    /\ \A i \in Instruments : DOMAIN song.v.instruments[i].seq.bytes = {}

\* C12: a synth of a silent song with a non-zero quarter_note_length yields
\* no frame: its first call of next returns None.
C12_SilentYieldsNothing ==
    (pc = "playing" /\ SilentSong /\ song.v.quarter_note_length # U32Zero)
        => (frames = 0 /\ ret.kind \in {"NotCalled", "None"})

\* The song plays at least one note: some instrument has, within the played
\* part of its sequence, a pattern with a non-zero note.
PlaysANote ==
    \E i \in Instruments :
        \E k \in DOMAIN song.v.instruments[i].seq.bytes :
            LET p == song.v.instruments[i].seq.bytes[k]
            IN  /\ k <= song.v.seq_length
                /\ p - 1 \in DOMAIN song.v.instruments[i].pat
                /\ DOMAIN song.v.instruments[i].pat[p - 1].notes.bytes # {}

\* The times of the synth are small enough to be added up as integers, and
\* no track repeats its delay without end at a non-zero distance.
SmallTimes ==
    /\ synth.quarter_note_length.hi = 0
    /\ \A i \in Instruments :
           /\ synth.tracks[i].env.attack.hi = 0
           /\ synth.tracks[i].env.sustain.hi = 0
           /\ synth.tracks[i].env.release.hi = 0
           /\ synth.tracks[i].delay_samples.hi = 0

FiniteTaps ==
    \A i \in Instruments :
        synth.tracks[i].delay_samples = U32Zero \/ synth.tracks[i].delay_count # U32_MAX

\* (seq_length + 1) * 32 * quarter_note_length
SongSamples ==
    (song.v.seq_length + 1) * PATTERN_LENGTH * U32Int(synth.quarter_note_length)

\* attack + sustain + release of a track
EnvelopeTail(i) ==
    U32Int(synth.tracks[i].env.attack) + U32Int(synth.tracks[i].env.sustain)
        + U32Int(synth.tracks[i].env.release)

\* delay_samples * delay_count of a track: the distance of its last tap.
LastTap(i) ==
    IF synth.tracks[i].delay_samples = U32Zero THEN 0
    ELSE U32Int(synth.tracks[i].delay_samples) * U32Int(synth.tracks[i].delay_count)

MaxOver(f(_)) == CHOOSE m \in {f(i) : i \in Instruments} : \A i \in Instruments : f(i) <= m

\* C13 as written: the frames returned are at most (seq_length + 1) * 32 *
\* quarter_note_length + the longest attack + sustain + release of a track,
\* delay taps included.
C13_FrameBoundAsWritten ==
    (pc \in {"playing", "panicked"} /\ PlaysANote /\ SmallTimes)
        => frames <= SongSamples + MaxOver(EnvelopeTail)

\* C13: the frames returned are at most (seq_length + 1) * 32 *
\* quarter_note_length + the largest over the tracks of delay_samples *
\* delay_count + attack + sustain + release, when no track with a non-zero
\* delay_samples has delay_count = u32::MAX.
C13_FrameBound ==
    (pc \in {"playing", "panicked"} /\ PlaysANote /\ SmallTimes /\ FiniteTaps)
        => LET tapped(i) == LastTap(i) + EnvelopeTail(i)
           IN  frames <= SongSamples + MaxOver(tapped)

\* A stream that ended after more frames than the bound without the taps
\* allows: the last echo outlived it.
C13_Witness ==
    /\ pc = "playing" /\ PlaysANote /\ SmallTimes /\ FiniteTaps
    /\ ret.kind = "None"
    /\ frames > SongSamples + MaxOver(EnvelopeTail)

\* The note-ons the song holds for instrument i: <<seq_count, note_count>>
\* with a pattern in 1..10 and a non-zero note.
NoteOns(i) ==
    LET inst == song.v.instruments[i]
    IN  {<<k, n>> \in (DOMAIN inst.seq.bytes) \X (0..(PATTERN_LENGTH - 1)) :
            /\ inst.seq.bytes[k] - 1 \in DOMAIN inst.pat
            /\ n \in DOMAIN inst.pat[inst.seq.bytes[k] - 1].notes.bytes}

Slots == 0..(MAX_OVERLAPPING_NOTES - 1)

Active(notes) == {j \in Slots : notes[j].pitch # 0}

\* C14: a note-on with a non-zero pitch takes the lowest slot with pitch 0;
\* with all 8 slots taken it overwrites the slot of the smallest
\* sample_count, the lowest among equals; the other 7 slots and the other
\* tracks stay as they were, and at most 8 voices are active.
C14_SlotAllocation ==
    pc = "playing" =>
        \A i \in Instruments : \A on \in NoteOns(i) :
            LET notes == synth.tracks[i].notes
                after == add_note(synth, song.v, i, on[1], on[2], FOne, FALSE)
                free == Slots \ Active(notes)
                slot == IF free # {}
                        THEN CHOOSE j \in free : \A k \in free : j <= k
                        ELSE CHOOSE j \in Slots : \A k \in Slots :
                                 \/ notes[j].sample_count < notes[k].sample_count
                                 \/ /\ notes[j].sample_count = notes[k].sample_count
                                    /\ j <= k
                inst == song.v.instruments[i]
            IN  /\ after.tracks[i].notes[slot].pitch
                       = inst.pat[inst.seq.bytes[on[1]] - 1].notes.bytes[on[2]]
                /\ after.tracks[i].notes[slot].sample_count = synth.sample_count
                /\ \A j \in Slots \ {slot} : after.tracks[i].notes[j] = notes[j]
                /\ \A t \in Instruments \ {i} : after.tracks[t] = synth.tracks[t]
                /\ Active(after.tracks[i].notes) = Active(notes) \cup {slot}

\* A track whose 8 slots were all taken at the same sample by 11 note-ons
\* (10 delay rounds and the tick's own note), and which the song can give
\* another note-on.
C14_Witness ==
    /\ pc = "playing"
    /\ \E i \in Instruments :
           /\ NoteOns(i) # {}
           /\ synth.sample_count > 0
           /\ synth.tracks[i].delay_count = U32_MAX
           /\ Active(synth.tracks[i].notes) = Slots
           /\ \A j \in Slots : synth.tracks[i].notes[j].sample_count = synth.sample_count

OctaveByte(i, o) == ByteAt(slice, InstrumentBase(i) + o * OSCILLATOR_LENGTH)

\* C16: the decoded octave of every oscillator is ((byte - 8) * 12) mod 256,
\* the pitch behind each oscillator frequency of a started voice is
\* (pitch + octave + detune_freq) mod 256, and neither computation panics.
C16_Wrapping ==
    /\ pc # "panicked"
    /\ IsOk(song) =>
           \A i \in Instruments, o \in 0..1 :
               song.v.instruments[i].osc[o].octave = ((OctaveByte(i, o) - 8) * 12) % 256
    /\ pc = "playing" =>
           \A i \in Instruments, j \in Slots, o \in 0..1 :
               LET note == synth.tracks[i].notes[j]
                   osc == song.v.instruments[i].osc[o]
               IN  note.pitch # 0 =>
                       note.osc_freq[o].freq
                           = get_note_frequency(
                                 (note.pitch + osc.octave + osc.detune_freq) % 256)

\* An octave byte below 8, and a started voice whose pitch, octave and
\* detune_freq add up past 255.
C16_Witness ==
    /\ pc = "playing"
    /\ OctaveByte(0, 0) < 8
    /\ \E j \in Slots :
           LET note == synth.tracks[0].notes[j]
               osc == song.v.instruments[0].osc[1]
           IN  /\ note.pitch # 0
               /\ note.pitch + osc.octave + osc.detune_freq > 255
               /\ note.osc_freq[1].freq.exp < 0

\* C17: while next returns frames (quarter_note_length > 0, no overflow),
\* sample_count is the number of frames returned, note_count is
\* floor(sample_count / quarter_note_length) mod 32 and seq_count is
\* floor(sample_count / (32 * quarter_note_length)).
C17_Counters ==
    (pc = "playing" /\ synth.quarter_note_length # U32Zero) =>
        LET ticks == IF U32Fits(synth.quarter_note_length)
                     THEN synth.sample_count \div U32Int(synth.quarter_note_length)
                     ELSE 0
        IN  /\ synth.sample_count = frames
            /\ synth.note_count = ticks % PATTERN_LENGTH
            /\ synth.seq_count = ticks \div PATTERN_LENGTH

\* The fourth row of the second pattern position, at two samples a row.
C17_Witness ==
    /\ pc = "playing"
    /\ synth.quarter_note_length = U32(2)
    /\ frames = 70
    /\ synth.seq_count = 1
    /\ synth.note_count = 3

\* Some voice slot of the synth is taken.
AnyVoice ==
    \E i \in Instruments, j \in Slots : synth.tracks[i].notes[j].pitch # 0

\* C18 as written: note_count is in 0..32 and seq_count in 0..=seq_length + 1
\* in every state of the synth, also while tails or taps keep voices active.
C18_CounterRangesAsWritten ==
    pc = "playing" =>
        /\ synth.note_count \in 0..(PATTERN_LENGTH - 1)
        /\ synth.seq_count \in 0..(song.v.seq_length + 1)

\* C18: note_count is in 0..32 in every state of the synth; seq_count is at
\* most seq_length + 1 unless a voice was still active when next moved it
\* further: a call of next that finds no voice active never moves seq_count
\* past seq_length + 1.
C18_CounterRanges ==
    [][pc = "playing" =>
          /\ synth'.note_count \in 0..(PATTERN_LENGTH - 1)
          /\ (synth'.seq_count > song.v.seq_length + 1
                  /\ synth'.seq_count # synth.seq_count) => AnyVoice]_vars

\* Voices that outlasted the pattern after the last one: seq_count is past
\* seq_length + 1.
C18_Witness ==
    /\ pc = "playing"
    /\ synth.seq_count = song.v.seq_length + 2
    /\ synth.note_count \in 0..(PATTERN_LENGTH - 1)
    /\ AnyVoice

\* The synth stands at a quarter-note tick (or at its construction): the
\* last thing Synth::new or next did was load_notes.
AtTick ==
    /\ pc = "playing"
    /\ synth.quarter_note_length # U32Zero
    /\ SmallMod(synth.sample_count, synth.quarter_note_length) = 0

\* The note the song holds for instrument i at the synth's position, or 0.
DueNote(i) ==
    LET inst == song.v.instruments[i]
        p == ByteAt(inst.seq, synth.seq_count)
    IN  IF p = 0 \/ p - 1 \notin DOMAIN inst.pat THEN 0
        ELSE ByteAt(inst.pat[p - 1].notes, synth.note_count)

\* The voice of the tick's own note on track i.
OwnVoice(i, j) ==
    LET note == synth.tracks[i].notes[j]
    IN  /\ note.pitch = DueNote(i)
        /\ note.sample_count = synth.sample_count
        /\ note.volume = FOne
        /\ note.swap_stereo = FALSE

\* C19: after construction and after every quarter-note tick within the
\* song, each instrument with a note at the position holds a voice of that
\* pitch, started at the current sample with volume 1.0 and swap_stereo
\* false; past the song load_notes creates no voice.
C19_NotesLoaded ==
    /\ (AtTick /\ synth.seq_count <= song.v.seq_length) =>
           \A i \in Instruments : DueNote(i) # 0 => \E j \in Slots : OwnVoice(i, j)
    /\ (pc = "playing" /\ synth.seq_count > song.v.seq_length) =>
           load_notes(synth, song.v) = synth

\* A tick after the first on which a track got its own note and, the same
\* sample, an echo of it.
C19_Witness ==
    /\ AtTick
    /\ synth.sample_count > 0
    /\ synth.seq_count <= song.v.seq_length
    /\ \E i \in Instruments :
           /\ DueNote(i) # 0
           /\ \E j \in Slots : OwnVoice(i, j)
           /\ \E k \in Slots :
                  /\ synth.tracks[i].notes[k].sample_count = synth.sample_count
                  /\ synth.tracks[i].notes[k].pitch # 0
                  /\ synth.tracks[i].notes[k].volume # FOne

\* The positions add_note is tried at: the synth's own and the last ones.
RestSeqCounts == {SEQUENCE_LENGTH - 1}

RestNoteCounts == {PATTERN_LENGTH - 1}

\* Position (k, n) is a rest of instrument i: no pattern, or no note.
Rest(i, k, n) ==
    LET inst == song.v.instruments[i]
        p == ByteAt(inst.seq, k)
    IN  \/ p = 0
        \/ /\ p - 1 \in DOMAIN inst.pat
           /\ ByteAt(inst.pat[p - 1].notes, n) = 0

\* C20: add_note on a rest (sequence entry 0, or pattern note 0) leaves the
\* whole synth as it was, whatever volume and side it is called with.
C20_RestIsNoOp ==
    pc = "playing" =>
        \A i \in Instruments :
            \A k \in RestSeqCounts \cup {synth.seq_count % SEQUENCE_LENGTH} :
                \A n \in RestNoteCounts \cup {synth.note_count} :
                    Rest(i, k, n) =>
                        /\ add_note(synth, song.v, i, k, n, FOne, FALSE) = synth
                        /\ add_note(synth, song.v, i, k, n,
                                    Powf(song.v.instruments[i].fx.delay_amount, U32(1)),
                                    TRUE) = synth

\* A tick within a pattern on which an instrument had a rest while all 8
\* voices of its track were sounding.
C20_Witness ==
    /\ AtTick
    /\ synth.sample_count > 0
    /\ synth.seq_count <= song.v.seq_length
    /\ \E i \in Instruments :
           /\ ByteAt(song.v.instruments[i].seq, synth.seq_count) # 0
           /\ Rest(i, synth.seq_count, synth.note_count)
           /\ Active(synth.tracks[i].notes) = Slots

\* The slot a note-on on track i would take.
NextSlot(i) == get_note_slot(synth.tracks[i].notes)

\* C21: the voice add_note writes, into an empty slot or over a sounding
\* voice, has the synth's sample_count, the given volume and side, both
\* oscillator phases 0 and filter memory low = band = 0.
C21_FreshVoice ==
    pc = "playing" =>
        \A i \in Instruments : \A on \in NoteOns(i) :
            \A side \in BOOLEAN :
                LET volume == IF side
                              THEN Powf(song.v.instruments[i].fx.delay_amount, U32(1))
                              ELSE FOne
                    after == add_note(synth, song.v, i, on[1], on[2], volume, side)
                    voice == after.tracks[i].notes[NextSlot(i)]
                IN  /\ voice.pitch # 0
                    /\ voice.sample_count = synth.sample_count
                    /\ voice.volume = volume
                    /\ voice.swap_stereo = side
                    /\ voice.osc_time = [o \in 0..1 |-> FZero]
                    /\ voice.low = FZero
                    /\ voice.band = FZero

\* A note-on is due on a track whose slots are all taken, and the voice it
\* would replace has sounded: its phases and filter memory have moved.
C21_Witness ==
    /\ pc = "playing"
    /\ \E i \in Instruments :
           /\ NoteOns(i) # {}
           /\ Active(synth.tracks[i].notes) = Slots
           /\ synth.tracks[i].notes[NextSlot(i)].low = FAny
           /\ synth.tracks[i].notes[NextSlot(i)].sample_count < synth.sample_count

\* The note of instrument i in row n of sequence position k, or 0.
NoteAt(i, k, n) ==
    LET inst == song.v.instruments[i]
        p == ByteAt(inst.seq, k)
    IN  IF p = 0 \/ p - 1 \notin DOMAIN inst.pat THEN 0
        ELSE ByteAt(inst.pat[p - 1].notes, n)

\* Voice j of track i was written by a delay round: its volume is a power
\* of the delay amount.
TapVoice(i, j) ==
    /\ synth.tracks[i].notes[j].pitch # 0
    /\ synth.tracks[i].notes[j].volume.k = "pow"

\* The voice a delay round r of track i leaves at sample T for the note at
\* sample position P.
Replays(i, j, r, T, P) ==
    LET note == synth.tracks[i].notes[j]
        qnl == U32Int(synth.quarter_note_length)
    IN  /\ note.sample_count = T
        /\ P >= 0
        /\ P % qnl = 0
        /\ P \div (PATTERN_LENGTH * qnl) <= song.v.seq_length
        /\ note.pitch = NoteAt(i, P \div (PATTERN_LENGTH * qnl),
                               (P % (PATTERN_LENGTH * qnl)) \div qnl)
        /\ note.volume = Powf(song.v.instruments[i].fx.delay_amount, U32(r))
        /\ note.swap_stereo = (r % 2 = 1)

\* C22: a voice of delay round r written at sample T replays the note at
\* position T - r * delay_samples with volume delay_amount^r and
\* swap_stereo = (r is odd); and with delay_time = 2 the round-1 tap of the
\* note at position 0 is there at sample_count = 2 * eighth_note_length,
\* with swap_stereo true.
C22_DelayTaps ==
    (pc = "playing" /\ synth.quarter_note_length.hi = 0
                    /\ synth.quarter_note_length # U32Zero) =>
        \A i \in Instruments :
            LET ds == U32Int(synth.tracks[i].delay_samples)
            IN  /\ \A j \in Slots :
                       TapVoice(i, j) =>
                           LET note == synth.tracks[i].notes[j]
                               r == U32Int(note.volume.exp)
                           IN  Replays(i, j, r, note.sample_count,
                                       note.sample_count - r * ds)
                /\ (/\ song.v.instruments[i].fx.delay_time = 2
                    /\ synth.tracks[i].delay_count # U32Zero
                    /\ synth.tracks[i].delay_count # U32_MAX
                    /\ NoteAt(i, 0, 0) # 0
                    /\ synth.sample_count = 2 * U32Int(synth.eighth_note_length))
                       => \E j \in Slots : Replays(i, j, 1, synth.sample_count, 0)

\* The sample positions at which load_notes starts a note of instrument i.
PlayedAt(i) ==
    {(on[1] * PATTERN_LENGTH + on[2]) * U32Int(synth.quarter_note_length) :
        on \in {x \in NoteOns(i) : x[1] <= song.v.seq_length}}

\* All 8 slots of track i were written at the current sample.
AllNew(i) ==
    \A j \in Slots : /\ synth.tracks[i].notes[j].pitch # 0
                     /\ synth.tracks[i].notes[j].sample_count = synth.sample_count

\* C23: with quarter_note_length = 2 * eighth_note_length, every note played
\* at position P is echoed in every round r of its track (delay_samples > 0,
\* delay_count < u32::MAX) at sample P + r * delay_samples, and the stream
\* does not end before.
C23_EveryRoundEchoes ==
    (/\ pc = "playing"
     /\ synth.quarter_note_length.hi = 0
     /\ synth.quarter_note_length # U32Zero
     /\ synth.quarter_note_length.lo = 2 * synth.eighth_note_length.lo) =>
        \A i \in Instruments :
            (/\ synth.tracks[i].delay_count # U32_MAX
             /\ synth.tracks[i].delay_samples.hi = 0
             /\ synth.tracks[i].delay_samples # U32Zero) =>
                \A r \in 1..U32Int(synth.tracks[i].delay_count) : \A P \in PlayedAt(i) :
                    LET T == P + r * U32Int(synth.tracks[i].delay_samples)
                    IN  /\ (synth.sample_count = T /\ ~AllNew(i))
                               => \E j \in Slots : Replays(i, j, r, T, P)
                        /\ ret.kind = "None" => T <= synth.sample_count

\* Natural numbers of any size, for the exact comparison of two powers:
\* Limbs digits in base HALF, the least significant first.
Limbs == 6

MaxRepeats == 9

BigOne == [d \in 1..Limbs |-> IF d = 1 THEN 1 ELSE 0]

RECURSIVE BigCarry(_, _, _)
BigCarry(x, k, d) ==
    IF d = 1 THEN 0 ELSE (x[d - 1] * k + BigCarry(x, k, d - 1)) \div HALF

BigScale(x, k) == [d \in 1..Limbs |-> (x[d] * k + BigCarry(x, k, d)) % HALF]

RECURSIVE BigPow(_, _)
BigPow(k, n) == IF n = 0 THEN BigOne ELSE BigScale(BigPow(k, n - 1), k)

BigLe(x, y) ==
    x = y \/ \E d \in 1..Limbs :
                 x[d] < y[d] /\ \A e \in (d + 1)..Limbs : x[e] = y[e]

\* (den / num)^n <= 256, that is n <= log(256) / log(1 / amount).
WithinAudible(amount, n) ==
    BigLe(BigPow(amount.den, n), BigScale(BigPow(amount.num, n), 256))

\* floor(log(256) / log(1 / amount)) for 0 < amount < 1.
FloorLog(amount) ==
    CHOOSE n \in 0..MaxRepeats :
        WithinAudible(amount, n) /\ ~WithinAudible(amount, n + 1)

\* C24: for each track delay_samples is delay_time times eighth_note_length,
\* and delay_count is 0 when the delay amount byte is 0, u32::MAX when it is
\* 255 (even with no delay_samples), 1 when the amount is strictly between 0
\* and 1 and delay_samples is 0, and floor(log(256) / log(1 / delay_amount))
\* otherwise.
C24_DelayCount ==
    pc = "playing" =>
        \A i \in Instruments :
            LET fx == song.v.instruments[i].fx
                track == synth.tracks[i]
                byte == fx.delay_amount.num
            IN  /\ fx.delay_amount.den = 255
                /\ U32Fits(track.delay_samples)
                /\ U32Fits(synth.eighth_note_length)
                /\ U32Int(track.delay_samples)
                       = fx.delay_time * U32Int(synth.eighth_note_length)
                /\ track.delay_count =
                       IF byte = 0 THEN U32Zero
                       ELSE IF byte = 255 THEN U32_MAX
                       ELSE IF U32Int(track.delay_samples) = 0 THEN U32(1)
                       ELSE U32(FloorLog(fx.delay_amount))

\* A synth with a track of each case: no delay, an endless delay without
\* delay_samples, one repeat without delay_samples, and a computed count.
C24_Witness ==
    /\ pc = "playing"
    /\ \E i \in Instruments :
           /\ song.v.instruments[i].fx.delay_amount.num = 255
           /\ synth.tracks[i].delay_samples = U32Zero
           /\ synth.tracks[i].delay_count = U32_MAX
    /\ \E i \in Instruments :
           /\ song.v.instruments[i].fx.delay_amount.num = 128
           /\ synth.tracks[i].delay_samples # U32Zero
           /\ synth.tracks[i].delay_count = U32(8)
    /\ \E i \in Instruments : synth.tracks[i].delay_count = U32Zero

\* min(x, HALF) for a u32 x: enough to compare x with a sample index of an
\* explored run, which stays below HALF.
Capped(x) == IF x.hi > 0 THEN HALF ELSE x.lo

\* attack + sustain + release of track i on the integers, capped at 3 * HALF.
Lifetime(i) ==
    Capped(synth.tracks[i].env.attack) + Capped(synth.tracks[i].env.sustain)
        + Capped(synth.tracks[i].env.release)

\* attack + sustain + release of track i does not fit a u32.
LifetimeWraps(i) ==
    LET e == synth.tracks[i].env
        as == U32Add(e.attack, e.sustain)
    IN  as.ovf \/ U32Add(as.v, e.release).ovf

\* The voices of the synth: <<instrument, slot>> with a pitch.
Voices ==
    {v \in Instruments \X Slots : synth.tracks[v[1]].notes[v[2]].pitch # 0}

\* The frame this step returns treats voice v, started at sample index b, as
\* the claim says: within b <= t < b + lifetime it is mixed and kept (or its
\* slot is taken by a note starting with the next frame); at t = b + lifetime,
\* and never later, it is not mixed and its slot is reset.
LivesItsLifetime(v) ==
    LET note == synth.tracks[v[1]].notes[v[2]]
        after == synth'.tracks[v[1]].notes[v[2]]
        age == synth.sample_count - note.sample_count
        taken == after.pitch # 0 /\ after.sample_count = synth'.sample_count
                 /\ after.osc_time = [o \in 0..1 |-> FZero]
    IN  /\ 0 <= age /\ age <= Lifetime(v[1])
        /\ age < Lifetime(v[1]) =>
               /\ v \in update(synth, checks).mixed
               /\ \/ after = Sounded(note)
                  \/ taken
        /\ age = Lifetime(v[1]) =>
               /\ v \notin update(synth, checks).mixed
               /\ after.pitch = 0 \/ taken

\* C25 as written: a voice started at b contributes to every frame t with
\* b <= t < b + attack + sustain + release unless its slot is stolen, to no
\* later frame, and its slot is reset while the frame at
\* t = b + attack + sustain + release is produced; with a zero envelope it
\* contributes to no frame.
C25_VoiceLifetime ==
    [][(pc = "playing" /\ ret'.kind = "Some") => \A v \in Voices : LivesItsLifetime(v)]_vars

\* C25 where attack + sustain + release fits a u32.
C25_VoiceLifetimeFitting ==
    [][(pc = "playing" /\ ret'.kind = "Some") =>
          \A v \in Voices : ~LifetimeWraps(v[1]) => LivesItsLifetime(v)]_vars

\* The envelope the claim gives a voice of track i at the given age, in the
\* form env keeps it: the branch and the two numbers it divides.
EnvelopeAsWritten(i, age) ==
    LET e == synth.tracks[i].env
        attack == Capped(e.attack)
        sustain == Capped(e.sustain)
    IN  IF age < attack
        THEN [k |-> "attack", position |-> U32(age), attack |-> e.attack]
        ELSE IF attack + sustain <= age
        THEN [k |-> "release", pos |-> U32(age - attack - sustain), release |-> e.release]
        ELSE [k |-> "sustain"]

\* An envelope value in [0, 1] that divides by no zero.
UnitEnvelope(e) ==
    CASE e.k = "attack" -> e.attack # U32Zero /\ U32Le(e.position, e.attack)
      [] e.k = "release" -> e.release # U32Zero /\ U32Le(e.pos, e.release)
      [] e.k = "sustain" -> TRUE

\* env gives voice v, while it lasts, the envelope of the claim.
HasEnvelopeAsWritten(v) ==
    LET age == synth.sample_count - synth.tracks[v[1]].notes[v[2]].sample_count
        e == generate_samples(synth, v[1], v[2], checks)
    IN  age < Lifetime(v[1]) =>
            /\ e.kind = "Some"
            /\ e.env = EnvelopeAsWritten(v[1], age)
            /\ UnitEnvelope(e.env)

\* C26 as written: for a voice of age a the envelope is a / attack when
\* a < attack, 1 - (a - attack - sustain) / release when
\* attack + sustain <= a < attack + sustain + release, and 1 in between; it
\* lies in [0, 1] and no division by zero occurs, for any attack, sustain and
\* release.
C26_Envelope ==
    pc = "playing" => \A v \in Voices : HasEnvelopeAsWritten(v)

\* C26 where attack + sustain + release fits a u32.
C26_EnvelopeFitting ==
    pc = "playing" =>
        \A v \in Voices : ~LifetimeWraps(v[1]) => HasEnvelopeAsWritten(v)

\* C26 without the choice of the branch: whatever env returns lies in [0, 1]
\* and divides by no zero, also where the sum wraps.
C26_EnvelopeInUnit ==
    pc = "playing" =>
        \A v \in Voices :
            LET e == generate_samples(synth, v[1], v[2], checks)
            IN  e.kind = "Some" => UnitEnvelope(e.env)

\* The random numbers the step draws.
Drawn == synth'.random.draws - synth.random.draws

\* No instrument of the song has a noise fader.
NoNoise == \A i \in Instruments : song.v.instruments[i].noise_fader.num = 0

\* The voices that contribute to the frame of this step: those younger than
\* their envelope.
Contributing ==
    {v \in Voices :
        synth.sample_count - synth.tracks[v[1]].notes[v[2]].sample_count < Lifetime(v[1])}

LfoByte(i) == ByteAt(slice, InstrumentBase(i) + LfoOffset + 2)

PanByte(i) == ByteAt(slice, InstrumentBase(i) + FxOffset + 10)

\* interval ^ steps, as get_frequency keeps it.
Power(interval, steps) ==
    [k |-> "freq", ref_freq |-> 1, semitone |-> interval, exp |-> steps]

\* Two powers with the same value: any interval to the power 0 is 1, and
\* otherwise the interval and the steps are the same.
SamePower(x, y) == x = y \/ (x.ref_freq = y.ref_freq /\ x.exp = 0 /\ y.exp = 0)

\* quarter_note_length as f32 * sample_ratio of the synth.
ScaledQuarterNote ==
    [k |-> "scaled", of |-> synth.quarter_note_length, rate |-> synth.sample_rate]

\* C28 as written: lfo_freq and pan_freq of every track are
\* 2^((b - 8) / 12) / (quarter_note_length * sample_ratio) for the LFO rate
\* byte and the panning frequency byte b: steps of a twelfth of an octave.
C28_SemitoneSteps ==
    pc = "playing" =>
        \A i \in Instruments :
            /\ SamePower(synth.tracks[i].lfo_freq.num, Power("SEMITONE", LfoByte(i) - 8))
            /\ synth.tracks[i].lfo_freq.den = ScaledQuarterNote
            /\ SamePower(synth.tracks[i].pan_freq.num, Power("SEMITONE", PanByte(i) - 8))
            /\ synth.tracks[i].pan_freq.den = ScaledQuarterNote

\* C28: lfo_freq and pan_freq of every track are
\* 2^(b - 8) / (quarter_note_length * sample_ratio) for the LFO rate byte and
\* the panning frequency byte b, with the synth's scaled quarter_note_length:
\* steps of one octave relative to 8.
C28_OctaveSteps ==
    pc = "playing" =>
        \A i \in Instruments :
            /\ SamePower(synth.tracks[i].lfo_freq.num, Power("2.0", LfoByte(i) - 8))
            /\ synth.tracks[i].lfo_freq.den = ScaledQuarterNote
            /\ SamePower(synth.tracks[i].pan_freq.num, Power("2.0", PanByte(i) - 8))
            /\ synth.tracks[i].pan_freq.den = ScaledQuarterNote

\* A synth with an LFO above and a panning below the reference byte.
C28_Witness ==
    /\ pc = "playing"
    /\ \E i \in Instruments :
           /\ LfoByte(i) = 20
           /\ PanByte(i) = 7
           /\ synth.tracks[i].lfo_freq.num.exp = 12
           /\ synth.tracks[i].pan_freq.num.exp = -1

\* C29: once next has returned None, a later call of next returns None again
\* and leaves the whole synth (sample_count, note_count, seq_count, every
\* voice slot, the random generator) as it was: the stream never resumes.
C29_StaysEnded ==
    (pc = "playing" /\ ret.kind = "None") =>
        LET later == next(synth, song.v, checks, chain)
        IN  /\ later.ret.kind = "None"
            /\ later.s = synth
            /\ later.s.sample_count = frames

\* next has returned frames, drawn random numbers and then None, and can be
\* called again.
C29_Witness ==
    /\ pc = "playing"
    /\ ret.kind = "None"
    /\ frames > 0
    /\ synth.random.draws > 0
    /\ synth.sample_count < MaxSamples
    /\ ENABLED Call

====
